---------------------------- MODULE Spec2Model ----------------------------
(***************************************************************************)
(* Little Man Computer: the assembler (compile_assembly) and the           *)
(* fetch-decode-execute engine (execute) of main.py.                       *)
(*                                                                         *)
(* A text (Python str) is a sequence of one-character strings.  A memory   *)
(* image (Python list of RAM_SIZE ints) is a function on 0..RAM_SIZE-1.    *)
(***************************************************************************)
EXTENDS Integers, Sequences, FiniteSets, TLC

VARIABLES
    asm,        \* the source text handed to main / compile_assembly
    compiled,   \* outcome of compile_assembly: "pending", "ok", "CompileError", "IndexError"
    memory,     \* the memory image (empty function until compile_assembly returns one)
    registers,  \* execute's registers dict: acc, cir, mdr, mar, pc
    state,      \* engine: "IDLE", "RUNNING", "HALTED", or the exception that ended execute
    stage,      \* position inside one loop iteration: "fetch" or "decode"
    inputs,     \* integers the input collaborator will still supply, in order
    consumed,   \* history: integers already read from the input collaborator, in order
    outputs,    \* integers handed to the output collaborator so far, in order
    fetched,    \* history: the MAR value of every fetch so far, in order
    word,       \* a word of any size handed to the decode step on its own
    decoded     \* the opcode and operand the decode step makes of word

vars == <<asm, compiled, memory, registers, state, stage, inputs, consumed, outputs, fetched,
          word, decoded>>

-----------------------------------------------------------------------------
(* Bounds of the model *)

\* longest generated source, in lines
MaxLines == 3
\* largest integer the input collaborator supplies
MaxInput == 5
\* most fetch cycles followed in one run
MaxCycles == 56
\* most fields of a generated one-line source
MaxFields == 4

-----------------------------------------------------------------------------
(* Program constants *)

RAM_SIZE == 100

\* smallest d with 10^d >= n: math.ceil(math.log(n, 10)) for the n used here
RECURSIVE CeilLog10From(_, _, _)
CeilLog10From(n, d, p) == IF p >= n THEN d ELSE CeilLog10From(n, d + 1, p * 10)

RAM_SIZE_DECLENGTH == CeilLog10From(RAM_SIZE, 0, 1)

RECURSIVE Pow10(_)
Pow10(d) == IF d = 0 THEN 1 ELSE 10 * Pow10(d - 1)

\* the mnemonics, as texts
ADD == <<"A", "D", "D">>
SUB == <<"S", "U", "B">>
STA == <<"S", "T", "A">>
LDA == <<"L", "D", "A">>
BRA == <<"B", "R", "A">>
BRZ == <<"B", "R", "Z">>
BRP == <<"B", "R", "P">>
INP == <<"I", "N", "P">>
OUT == <<"O", "U", "T">>
HLT == <<"H", "L", "T">>
DAT == <<"D", "A", "T">>

None == "None"

OPCODES ==
    (ADD :> 1) @@ (SUB :> 2) @@ (STA :> 3) @@ (LDA :> 4) @@ (BRA :> 5) @@
    (BRZ :> 6) @@ (BRP :> 7) @@ (INP :> 8) @@ (OUT :> 9) @@ (HLT :> 0) @@
    (DAT :> None)

-----------------------------------------------------------------------------
(* Python str operations used by compile_assembly *)

Whitespace == {" ", "\t", "\r", "\f"}

\* s.split(sep) for a one-character sep: the pieces between the occurrences of
\* sep, always at least one piece
split_on(s, sep) ==
    LET at == SelectSeq([i \in 1..Len(s) |-> i], LAMBDA i : s[i] = sep)
        n == Len(at)
        first(k) == IF k = 1 THEN 1 ELSE at[k - 1] + 1
        last(k) == IF k = n + 1 THEN Len(s) ELSE at[k] - 1
    IN  [k \in 1..(n + 1) |-> SubSeq(s, first(k), last(k))]

\* s.strip()
RECURSIVE lstrip(_)
lstrip(s) == IF s # <<>> /\ Head(s) \in Whitespace THEN lstrip(Tail(s)) ELSE s

RECURSIVE rstrip(_)
rstrip(s) ==
    IF s # <<>> /\ s[Len(s)] \in Whitespace THEN rstrip(SubSeq(s, 1, Len(s) - 1)) ELSE s

strip(s) == rstrip(lstrip(s))

\* index of the first whitespace character of s, Len(s)+1 when there is none
FirstWhitespace(s) ==
    IF \E i \in 1..Len(s) : s[i] \in Whitespace
    THEN CHOOSE i \in 1..Len(s) :
            s[i] \in Whitespace /\ \A j \in 1..(i - 1) : s[j] \notin Whitespace
    ELSE Len(s) + 1

\* s.split(): the maximal runs of non-whitespace characters
RECURSIVE split(_)
split(s) ==
    LET t == lstrip(s)
        i == FirstWhitespace(t)
    IN  IF t = <<>> THEN <<>>
        ELSE <<SubSeq(t, 1, i - 1)>> \o split(SubSeq(t, i, Len(t)))

Digits == {"0", "1", "2", "3", "4", "5", "6", "7", "8", "9"}

DigitValue(c) ==
    CASE c = "0" -> 0 [] c = "1" -> 1 [] c = "2" -> 2 [] c = "3" -> 3 [] c = "4" -> 4
      [] c = "5" -> 5 [] c = "6" -> 6 [] c = "7" -> 7 [] c = "8" -> 8 [] c = "9" -> 9

\* the token without its optional sign
Unsigned(tok) == IF tok # <<>> /\ tok[1] \in {"+", "-"} THEN Tail(tok) ELSE tok

\* whether int(tok) returns (FALSE: it raises ValueError).  An optional sign,
\* then decimal digits, single underscores allowed between digits.
IsIntLiteral(tok) ==
    LET b == Unsigned(tok)
    IN  /\ b # <<>>
        /\ b[1] \in Digits
        /\ b[Len(b)] \in Digits
        /\ \A i \in 1..Len(b) :
              \/ b[i] \in Digits
              \/ b[i] = "_" /\ i < Len(b) /\ b[i + 1] # "_"

RECURSIVE DigitsValue(_, _)
DigitsValue(b, acc) ==
    IF b = <<>> THEN acc
    ELSE IF Head(b) = "_" THEN DigitsValue(Tail(b), acc)
    ELSE DigitsValue(Tail(b), 10 * acc + DigitValue(Head(b)))

\* the value of int(tok) when IsIntLiteral(tok)
IntValue(tok) ==
    LET v == DigitsValue(Unsigned(tok), 0)
    IN  IF tok[1] = "-" THEN 0 - v ELSE v

-----------------------------------------------------------------------------
(* compile_assembly *)

\* An operand is either a str (a label reference) or an int.
StrOperand(tok) == [isstr |-> TRUE, tok |-> tok, val |-> 0]
IntOperand(n) == [isstr |-> FALSE, tok |-> <<>>, val |-> n]

\* ConvertOperand without the int conversion: every operand stays a str
ConvertOperand_NoInt(tok) == StrOperand(tok)

\* try: int(tok) / except ValueError: keep the token
ConvertOperand(tok) ==
    IF IsIntLiteral(tok) THEN IntOperand(IntValue(tok)) ELSE StrOperand(tok)

LabelledCommandTuple(label, opcode, operand) ==
    [label |-> label, opcode |-> opcode, operand |-> operand]

CommandTuple(opcode, operand) == [opcode |-> opcode, operand |-> operand]

NoCommand == LabelledCommandTuple(<<>>, <<>>, IntOperand(0))
Raised == [err |-> TRUE, cmd |-> NoCommand]
Parsed(cmd) == [err |-> FALSE, cmd |-> cmd]

\* STEP 2: the part of each line before any '#', stripped; empty lines dropped
NonEmpty(line) == line # <<>>

StripComment(line) == strip(Head(split_on(line, "#")))

RetainedLines(text) ==
    LET asm_lines == split_on(text, "\n")
    IN  SelectSeq([i \in 1..Len(asm_lines) |-> StripComment(asm_lines[i])], NonEmpty)

\* a parser that, given two fields, tries (label, opcode) before (opcode, operand)
ParseLine_LabelFirst(line) ==
    LET parts == split(line)
    IN  CASE Len(parts) = 1 ->
               IF parts[1] \notin DOMAIN OPCODES THEN Raised
               ELSE Parsed(LabelledCommandTuple(<<>>, parts[1], IntOperand(0)))
          [] Len(parts) = 2 ->
               IF parts[2] \in DOMAIN OPCODES
               THEN Parsed(LabelledCommandTuple(parts[1], parts[2], IntOperand(0)))
               ELSE IF parts[1] \in DOMAIN OPCODES
               THEN Parsed(LabelledCommandTuple(<<>>, parts[1], ConvertOperand(parts[2])))
               ELSE Raised
          [] Len(parts) = 3 ->
               IF parts[2] \notin DOMAIN OPCODES THEN Raised
               ELSE Parsed(LabelledCommandTuple(parts[1], parts[2], ConvertOperand(parts[3])))
          [] OTHER -> Raised

\* STEP 3: one retained line to a LabelledCommandTuple, or CompileError raised
ParseLine(line) ==
    LET parts == split(line)
    IN  CASE Len(parts) = 1 ->
               IF parts[1] \notin DOMAIN OPCODES THEN Raised
               ELSE Parsed(LabelledCommandTuple(<<>>, parts[1], IntOperand(0)))
          [] Len(parts) = 2 ->
               IF parts[1] \in DOMAIN OPCODES
               THEN Parsed(LabelledCommandTuple(<<>>, parts[1], ConvertOperand(parts[2])))
               ELSE IF parts[2] \in DOMAIN OPCODES
               THEN Parsed(LabelledCommandTuple(parts[1], parts[2], IntOperand(0)))
               ELSE Raised
          [] Len(parts) = 3 ->
               IF parts[2] \notin DOMAIN OPCODES THEN Raised
               ELSE Parsed(LabelledCommandTuple(parts[1], parts[2], ConvertOperand(parts[3])))
          [] OTHER -> Raised

\* STEP 4a: the label index, built record by record; err when a label recurs
EmptyIndex == [l \in {} |-> 0]

\* IndexLabel that numbers the records from 1
IndexLabel_OneBased(cmds, n, labels_index) ==
    IF cmds[n].label # <<>>
    THEN IF cmds[n].label \in DOMAIN labels_index
         THEN [err |-> TRUE, index |-> labels_index]
         ELSE [err |-> FALSE, index |-> labels_index @@ (cmds[n].label :> n)]
    ELSE [err |-> FALSE, index |-> labels_index]

\* IndexLabel that keeps the first declaration of a recurring label
IndexLabel_KeepFirst(cmds, n, labels_index) ==
    IF cmds[n].label # <<>> /\ cmds[n].label \notin DOMAIN labels_index
    THEN [err |-> FALSE, index |-> labels_index @@ (cmds[n].label :> (n - 1))]
    ELSE [err |-> FALSE, index |-> labels_index]

\* one iteration of the loop, for record n (stored at address n-1)
IndexLabel(cmds, n, labels_index) ==
    IF cmds[n].label # <<>>
    THEN IF cmds[n].label \in DOMAIN labels_index
         THEN [err |-> TRUE, index |-> labels_index]
         ELSE [err |-> FALSE, index |-> labels_index @@ (cmds[n].label :> (n - 1))]
    ELSE [err |-> FALSE, index |-> labels_index]

\* the iterations for records lo..hi in order, stopping at the first error
\* (the range is halved to keep the evaluation shallow; the order is the loop's)
RECURSIVE BuildLabelsIndex(_, _, _, _)
BuildLabelsIndex(cmds, lo, hi, labels_index) ==
    IF lo > hi THEN [err |-> FALSE, index |-> labels_index]
    ELSE IF lo = hi THEN IndexLabel(cmds, lo, labels_index)
    ELSE LET mid == (lo + hi) \div 2
             left == BuildLabelsIndex(cmds, lo, mid, labels_index)
         IN  IF left.err THEN left
             ELSE BuildLabelsIndex(cmds, mid + 1, hi, left.index)

\* ReplaceLabel that resolves an unknown label to address 0
ReplaceLabel_Default(command, labels_index) ==
    IF command.operand.isstr
    THEN IF command.operand.tok \in DOMAIN labels_index
         THEN [err |-> FALSE,
               cmd |-> CommandTuple(command.opcode, labels_index[command.operand.tok])]
         ELSE [err |-> FALSE, cmd |-> CommandTuple(command.opcode, 0)]
    ELSE [err |-> FALSE, cmd |-> CommandTuple(command.opcode, command.operand.val)]

\* STEP 4b: one record with its label reference replaced; err when the label is unknown
ReplaceLabel(command, labels_index) ==
    IF command.operand.isstr
    THEN IF command.operand.tok \in DOMAIN labels_index
         THEN [err |-> FALSE,
               cmd |-> CommandTuple(command.opcode, labels_index[command.operand.tok])]
         ELSE [err |-> TRUE, cmd |-> CommandTuple(command.opcode, 0)]
    ELSE [err |-> FALSE, cmd |-> CommandTuple(command.opcode, command.operand.val)]

\* a multiplier one decimal digit short of the address width
opcode_mult_Short == Pow10(RAM_SIZE_DECLENGTH - 1)

\* STEP 5: the word a resolved record is stored as
opcode_mult == Pow10(RAM_SIZE_DECLENGTH)

\* EncodeWord that leaves the operand out of an instruction word
EncodeWord_NoOperand(command) ==
    IF command.opcode = DAT THEN command.operand
    ELSE OPCODES[command.opcode] * opcode_mult

\* EncodeWord that keeps only the operand's digits below the multiplier
EncodeWord_Wrapped(command) ==
    IF command.opcode = DAT THEN command.operand
    ELSE (OPCODES[command.opcode] * opcode_mult) + (command.operand % opcode_mult)

EncodeWord(command) ==
    IF command.opcode = DAT THEN command.operand
    ELSE (OPCODES[command.opcode] * opcode_mult) + command.operand

\* STEP 5: one iteration of the loop, memory[n-1] = the word of record n
StoreWord(command_tuples, n, mem) ==
    IF (n - 1) \notin DOMAIN mem THEN [outcome |-> "IndexError", memory |-> mem]
    ELSE [outcome |-> "ok",
          memory |-> [mem EXCEPT ![n - 1] = EncodeWord(command_tuples[n])]]

\* the iterations for records lo..hi in order, stopping at the first IndexError
RECURSIVE AssembleRange(_, _, _, _)
AssembleRange(command_tuples, lo, hi, mem) ==
    IF lo > hi THEN [outcome |-> "ok", memory |-> mem]
    ELSE IF lo = hi THEN StoreWord(command_tuples, lo, mem)
    ELSE LET mid == (lo + hi) \div 2
             left == AssembleRange(command_tuples, lo, mid, mem)
         IN  IF left.outcome # "ok" THEN left
             ELSE AssembleRange(command_tuples, mid + 1, hi, left.memory)

ZeroMemory == [a \in 0..(RAM_SIZE - 1) |-> 0]
NoMemory == [a \in {} |-> 0]

CompileFailed == [outcome |-> "CompileError", memory |-> NoMemory]

compile_assembly(text) ==
    LET asm_lines == RetainedLines(text)
        parsed == [i \in 1..Len(asm_lines) |-> ParseLine(asm_lines[i])]
    IN  IF \E i \in 1..Len(parsed) : parsed[i].err THEN CompileFailed
        ELSE
        LET labelled_command_tuples == [i \in 1..Len(parsed) |-> parsed[i].cmd]
            built == BuildLabelsIndex(labelled_command_tuples, 1,
                                      Len(labelled_command_tuples), EmptyIndex)
        IN  IF built.err THEN CompileFailed
            ELSE
            LET replaced ==
                    [i \in 1..Len(labelled_command_tuples) |->
                        ReplaceLabel(labelled_command_tuples[i], built.index)]
            IN  IF \E i \in 1..Len(replaced) : replaced[i].err THEN CompileFailed
                ELSE
                LET command_tuples == [i \in 1..Len(replaced) |-> replaced[i].cmd]
                    done == AssembleRange(command_tuples, 1, Len(command_tuples), ZeroMemory)
                IN  IF done.outcome = "ok" THEN done
                    ELSE [outcome |-> done.outcome, memory |-> NoMemory]

-----------------------------------------------------------------------------
(* Source texts *)

Tab == <<"\t">>
Sp == <<" ">>

\* the lines joined by newline characters
RECURSIVE JoinLines(_)
JoinLines(lines) ==
    IF lines = <<>> THEN <<>>
    ELSE IF Len(lines) = 1 THEN lines[1]
    ELSE LET h == Len(lines) \div 2
         IN  JoinLines(SubSeq(lines, 1, h)) \o <<"\n">>
                \o JoinLines(SubSeq(lines, h + 1, Len(lines)))

\* str(n)
DigitChar(d) ==
    CASE d = 0 -> "0" [] d = 1 -> "1" [] d = 2 -> "2" [] d = 3 -> "3" [] d = 4 -> "4"
      [] d = 5 -> "5" [] d = 6 -> "6" [] d = 7 -> "7" [] d = 8 -> "8" [] d = 9 -> "9"

RECURSIVE Str(_)
Str(n) ==
    IF n < 0 THEN <<"-">> \o Str(0 - n)
    ELSE IF n < 10 THEN <<DigitChar(n)>>
    ELSE Str(n \div 10) \o <<DigitChar(n % 10)>>

\* the fields joined by single spaces
RECURSIVE JoinFields(_)
JoinFields(parts) ==
    IF Len(parts) = 1 THEN parts[1]
    ELSE parts[1] \o Sp \o JoinFields(Tail(parts))

La == <<"a">>
Lb == <<"b">>
Lres == <<"r", "e", "s">>
Ldec == <<"d", "e", "c">>
Lloop == <<"l", "o", "o", "p">>
Lend == <<"e", "n", "d">>
Lone == <<"o", "n", "e">>
Lpos == <<"p", "o", "s">>
Lzero == <<"z", "e", "r", "o">>

Comment == <<"#", " ", "n", "b">>

\* the program stored in main.py
ASSEMBLY_CODE ==
    JoinLines(<<
        <<>>,
        Tab \o INP,
        Tab \o STA \o Tab \o La,
        Tab \o INP,
        Tab \o STA \o Tab \o Lb,
        Lloop \o Tab \o LDA \o Tab \o Lres,
        Tab \o ADD \o Tab \o Lb,
        Tab \o STA \o Tab \o Lres,
        Tab \o LDA \o Tab \o La,
        Tab \o SUB \o Tab \o Ldec,
        Tab \o STA \o Tab \o La,
        Tab \o BRP \o Tab \o Lloop,
        Tab \o LDA \o Tab \o Lres,
        Tab \o OUT,
        Tab \o HLT,
        <<>>,
        La \o Tab \o DAT,
        Lb \o Tab \o DAT,
        Lres \o Tab \o DAT,
        Ldec \o Tab \o DAT \o Sp \o <<"1">>,
        <<>> >>)

\* the ten-line add program
AddProgram ==
    JoinLines(<<
        INP,
        STA \o Sp \o La,
        INP,
        STA \o Sp \o Lb,
        LDA \o Sp \o La,
        ADD \o Sp \o Lb,
        OUT,
        HLT,
        La \o Sp \o DAT,
        Lb \o Sp \o DAT >>)

\* counts the input down to zero, printing each value: BRZ and BRA
CountdownProgram ==
    JoinLines(<<
        Tab \o INP,
        Lloop \o Tab \o BRZ \o Tab \o Lend,
        Tab \o OUT,
        Tab \o SUB \o Tab \o Lone,
        Tab \o BRA \o Tab \o Lloop,
        Lend \o Tab \o HLT,
        Lone \o Tab \o DAT \o Tab \o <<"1">> >>)

\* prints 1, 0 or -1 by the sign of the input: BRP and BRZ on every sign
SignProgram ==
    JoinLines(<<
        INP,
        BRP \o Sp \o Lpos,
        BRZ \o Sp \o Lzero,
        LDA \o Sp \o <<"9">>,
        Lzero \o Sp \o OUT \o Sp \o Comment,
        HLT,
        Lpos \o Sp \o LDA \o Sp \o Lone,
        OUT,
        HLT \o Sp \o <<"5">>,
        DAT \o Sp \o <<"-", "1">>,
        Lone \o Sp \o DAT \o Sp \o <<"1">> >>)

\* no HLT: control runs past the last populated address
FallOffProgram == JoinLines(<<INP, OUT>>)

\* stores the input over the instruction at address 2 and then fetches it
SelfModifyingProgram ==
    JoinLines(<<INP, STA \o Sp \o <<"2">>, DAT, OUT, HLT>>)

\* a data word of four digits is fetched as an instruction
BigWordProgram ==
    JoinLines(<<OUT, DAT \o Sp \o <<"1", "0", "0", "0">> >>)

\* an operand that does not fit under the multiplier
OverflowProgram ==
    JoinLines(<<LDA \o Sp \o <<"1", "0", "3">>, OUT, HLT, DAT \o Sp \o <<"7">> >>)

\* the branch target is the last address; the word after it does not exist
LastAddressProgram ==
    JoinLines(<<BRA \o Sp \o <<"9", "9">> >>
              \o [i \in 1..(RAM_SIZE - 2) |-> HLT]
              \o <<OUT>>)

\* one record more than the memory holds
TooLongProgram == JoinLines([i \in 1..(RAM_SIZE + 1) |-> HLT])

Programs ==
    { ASSEMBLY_CODE, AddProgram, CountdownProgram, SignProgram, FallOffProgram,
      SelfModifyingProgram, BigWordProgram, OverflowProgram, LastAddressProgram }

\* the lines the generated sources are made of
LineSet ==
    { La \o Sp \o DAT \o Sp \o <<"2">>,
      La \o Tab \o LDA \o Tab \o Lb,
      Lb \o Sp \o DAT,
      BRA \o Sp \o La,
      Sp \o ADD \o Sp \o Lb \o Sp \o Comment,
      Comment,
      SUB \o Sp \o <<"1", "0", "5">>,
      DAT \o Sp \o <<"-", "1">>,
      La \o Sp \o Lb \o Sp \o HLT }

RECURSIVE SeqsOfLength(_, _)
SeqsOfLength(S, n) ==
    IF n = 0 THEN {<<>>}
    ELSE {<<x>> \o t : x \in S, t \in SeqsOfLength(S, n - 1)}

SeqsUpTo(S, n) == UNION {SeqsOfLength(S, k) : k \in 0..n}

GeneratedSources == {JoinLines(lines) : lines \in SeqsUpTo(LineSet, MaxLines)}

\* the one-line sources of 1..MaxFields fields drawn from these tokens
FieldTokens == {ADD, DAT, La, <<"7">>}

FieldSources ==
    UNION {{JoinFields(parts) : parts \in SeqsOfLength(FieldTokens, k)} : k \in 1..MaxFields}

\* the one-line sources "MNEMONIC operand" for every instruction and every
\* operand from -RAM_SIZE to 2 * RAM_SIZE - 1
Instructions == DOMAIN OPCODES \ {DAT}

OperandRange == (0 - RAM_SIZE)..((2 * RAM_SIZE) - 1)

EncodingSources == {mnemonic \o Sp \o Str(v) : mnemonic \in Instructions, v \in OperandRange}

\* a program whose label is spelled like a mnemonic
MnemonicLabelProgram == JoinLines(<<JoinFields(<<ADD, DAT>>), JoinFields(<<DAT, DAT, <<"7">>>>)>>)

Sources ==
    GeneratedSources \cup Programs \cup {TooLongProgram, MnemonicLabelProgram}
        \cup FieldSources \cup EncodingSources

\* what the input collaborator may supply to one run
InputValues == (0 - 2)..MaxInput
InputSequences == SeqsUpTo(InputValues, 2)

\* the values of execute's pc parameter (main passes the default, 0)
StartPCs == {0, 0 - 1, RAM_SIZE}

-----------------------------------------------------------------------------
(* Python list indexing *)

\* whether mem[a] exists: a negative index counts from the end
IndexOK(mem, a) == (0 - RAM_SIZE) <= a /\ a < RAM_SIZE

\* the key of the word mem[a] names
Slot(a) == IF a < 0 THEN a + RAM_SIZE ELSE a

-----------------------------------------------------------------------------
(* Python integers of any size, and the float division of the decode step *)

\* a natural number of any size is a sequence of digits in base 2^DigitBits,
\* least significant first, the last one not 0
DigitBits == 15
Base == 2^DigitBits

RECURSIVE NatDigits(_)
NatDigits(n) == IF n = 0 THEN <<>> ELSE <<n % Base>> \o NatDigits(n \div Base)

RECURSIVE DigitsNat(_)
DigitsNat(a) == IF a = <<>> THEN 0 ELSE Head(a) + (Base * DigitsNat(Tail(a)))

RECURSIVE StripZeros(_)
StripZeros(a) ==
    IF a = <<>> THEN <<>>
    ELSE IF a[Len(a)] = 0 THEN StripZeros(SubSeq(a, 1, Len(a) - 1))
    ELSE a

Zeros(k) == [i \in 1..k |-> 0]

LowDigit(a) == IF a = <<>> THEN 0 ELSE Head(a)
HighDigits(a) == IF a = <<>> THEN <<>> ELSE Tail(a)

\* a + b + carry
RECURSIVE AddDigits(_, _, _)
AddDigits(a, b, carry) ==
    IF a = <<>> /\ b = <<>> THEN (IF carry = 0 THEN <<>> ELSE <<carry>>)
    ELSE LET sum == LowDigit(a) + LowDigit(b) + carry
         IN  <<sum % Base>> \o AddDigits(HighDigits(a), HighDigits(b), sum \div Base)

\* a - b - borrow, for a >= b + borrow
RECURSIVE SubDigits(_, _, _)
SubDigits(a, b, borrow) ==
    IF a = <<>> THEN <<>>
    ELSE LET diff == LowDigit(a) - LowDigit(b) - borrow
         IN  IF diff < 0 THEN <<diff + Base>> \o SubDigits(HighDigits(a), HighDigits(b), 1)
             ELSE <<diff>> \o SubDigits(HighDigits(a), HighDigits(b), 0)

\* a < b
LessDigits(a, b) ==
    IF Len(a) # Len(b) THEN Len(a) < Len(b)
    ELSE \E i \in DOMAIN a :
            a[i] < b[i] /\ \A j \in (i + 1)..Len(a) : a[j] = b[j]

\* a * n + carry, for a natural number n < Base
RECURSIVE MulDigits(_, _, _)
MulDigits(a, n, carry) ==
    IF a = <<>> THEN (IF carry = 0 THEN <<>> ELSE <<carry>>)
    ELSE LET product == (Head(a) * n) + carry
         IN  <<product % Base>> \o MulDigits(Tail(a), n, product \div Base)

\* quotient and remainder of a by a natural number d < Base
RECURSIVE DivModDigits(_, _)
DivModDigits(a, d) ==
    IF a = <<>> THEN [q |-> <<>>, r |-> 0]
    ELSE LET high == DivModDigits(Tail(a), d)
             t == (Base * high.r) + Head(a)
         IN  [q |-> <<t \div d>> \o high.q, r |-> t % d]

\* the number of bits of a natural number
RECURSIVE NatBitLength(_)
NatBitLength(n) == IF n = 0 THEN 0 ELSE 1 + NatBitLength(n \div 2)

BitLength(a) ==
    IF a = <<>> THEN 0 ELSE (DigitBits * (Len(a) - 1)) + NatBitLength(a[Len(a)])

\* a * 2^k
ShiftLeft(a, k) ==
    StripZeros(Zeros(k \div DigitBits) \o MulDigits(a, 2^(k % DigitBits), 0))

\* floor(a / 2^k)
ShiftRight(a, k) ==
    LET whole == k \div DigitBits
        part == k % DigitBits
        Digit(i) == IF i \in DOMAIN a THEN a[i] ELSE 0
    IN  StripZeros([i \in 1..(Len(a) - whole) |->
                       (Digit(i + whole) \div 2^part)
                           + ((Digit(i + whole + 1) % 2^part) * 2^(DigitBits - part))])

\* a is no multiple of 2^k
LowBitsSet(a, k) == a # ShiftLeft(ShiftRight(a, k), k)

\* a Python int: sign and magnitude
Long(neg, digits) ==
    LET magnitude == StripZeros(digits)
    IN  [neg |-> neg /\ magnitude # <<>>, digits |-> magnitude]

LongOf(n) == Long(n < 0, NatDigits(IF n < 0 THEN 0 - n ELSE n))

IntOf(x) == IF x.neg THEN 0 - DigitsNat(x.digits) ELSE DigitsNat(x.digits)

LongNeg(x) == Long(~x.neg, x.digits)

LongAdd(x, y) ==
    IF x.neg = y.neg THEN Long(x.neg, AddDigits(x.digits, y.digits, 0))
    ELSE IF LessDigits(x.digits, y.digits) THEN Long(y.neg, SubDigits(y.digits, x.digits, 0))
    ELSE Long(x.neg, SubDigits(x.digits, y.digits, 0))

LongSub(x, y) == LongAdd(x, LongNeg(y))

LongMul(x, n) == Long(x.neg, MulDigits(x.digits, n, 0))

\* floor(x / n) computed exactly, for a natural number n < Base
LongFloorDiv(x, n) ==
    LET dm == DivModDigits(x.digits, n)
    IN  IF x.neg /\ dm.r # 0 THEN Long(TRUE, AddDigits(dm.q, <<1>>, 0))
        ELSE Long(x.neg, dm.q)

\* the bits of the significand of a Python float
MantissaBits == 53

\* x / d as Python computes it for ints: the quotient rounded to the nearest
\* float, ties to the even significand; the float is m * 2^e
TrueDivide(x, d) ==
    IF x.digits = <<>> THEN [neg |-> FALSE, m |-> <<>>, e |-> 0]
    ELSE LET need == (MantissaBits + 2 + NatBitLength(d)) - BitLength(x.digits)
             scale == IF need > 0 THEN need ELSE 0
             dm == DivModDigits(ShiftLeft(x.digits, scale), d)
             q == StripZeros(dm.q)
             drop == BitLength(q) - MantissaBits
             kept == ShiftRight(q, drop)
             half == ShiftRight(q, drop - 1)
             sticky == dm.r # 0 \/ LowBitsSet(q, drop - 1)
             up == Head(half) % 2 = 1 /\ (sticky \/ Head(kept) % 2 = 1)
         IN  [neg |-> x.neg,
              m |-> IF up THEN AddDigits(kept, <<1>>, 0) ELSE kept,
              e |-> drop - scale]

\* int(math.floor(f))
FloatFloor(f) ==
    IF f.e >= 0 THEN Long(f.neg, ShiftLeft(f.m, f.e))
    ELSE LET whole == ShiftRight(f.m, 0 - f.e)
         IN  IF f.neg /\ LowBitsSet(f.m, 0 - f.e)
             THEN Long(TRUE, AddDigits(whole, <<1>>, 0))
             ELSE Long(f.neg, whole)

\* 2. Decode, for a word of any size
DecodeLong(cir) ==
    LET opcode == FloatFloor(TrueDivide(cir, Pow10(RAM_SIZE_DECLENGTH)))
        operand == LongSub(cir, LongMul(opcode, Pow10(RAM_SIZE_DECLENGTH)))
    IN  [done |-> TRUE, opcode |-> opcode, operand |-> operand]

NotDecoded == [done |-> FALSE, opcode |-> LongOf(0), operand |-> LongOf(0)]

\* the words decoded: q * 100 + r for q = a * 2^k around the sizes where a
\* float has fraction bits to spare, just enough, and too few, of either sign,
\* and every word from -200 to 1099
WordExponents == {0, 3, 20, 30, 45, 46, 47, 50, 51, 52, 53, 54, 60}
WordRemainders == {0, 1, 25, 50, 75, 99}

LargeWords ==
    {Long(neg, AddDigits(MulDigits(ShiftLeft(NatDigits(a), k), RAM_SIZE, 0), NatDigits(r), 0)) :
        neg \in BOOLEAN, k \in WordExponents, a \in 1..3, r \in WordRemainders}

SmallWords == {LongOf(n) : n \in (0 - (2 * RAM_SIZE))..((11 * RAM_SIZE) - 1)}

Words == LargeWords \cup SmallWords

-----------------------------------------------------------------------------
(* main and execute *)

InitEngine(texts) ==
    /\ asm \in texts
    /\ compiled = "pending"
    /\ memory = NoMemory
    /\ registers = [acc |-> 0, cir |-> 0, mdr |-> 0, mar |-> 0, pc |-> 0]
    /\ state = "IDLE"
    /\ stage = "fetch"
    /\ inputs = <<>>
    /\ consumed = <<>>
    /\ outputs = <<>>
    /\ fetched = <<>>

InitWith(texts) ==
    /\ InitEngine(texts)
    /\ word = LongOf(0)
    /\ decoded = NotDecoded

Init == InitWith(Programs)

InitAsm == InitWith(Sources)

\* main: memory = compile_assembly(asm)
Compile ==
    /\ compiled = "pending"
    /\ LET r == compile_assembly(asm)
       IN  /\ compiled' = r.outcome
           /\ memory' = r.memory
    /\ UNCHANGED <<word, decoded, asm, registers, state, stage, inputs, consumed, outputs, fetched>>

\* execute(memory, pc): the registers are created
Begin ==
    /\ compiled = "ok"
    /\ state = "IDLE"
    /\ \E pc \in StartPCs :
          registers' = [acc |-> 0, cir |-> 0, mdr |-> 0, mar |-> 0, pc |-> pc]
    /\ \E supplied \in InputSequences : inputs' = supplied
    /\ state' = "RUNNING"
    /\ stage' = "fetch"
    /\ UNCHANGED <<word, decoded, asm, compiled, memory, consumed, outputs, fetched>>

\* a fetch that leaves the program counter where it is
Fetch_NoIncrement ==
    /\ state = "RUNNING"
    /\ stage = "fetch"
    /\ Len(fetched) < MaxCycles
    /\ LET mar == registers.pc
       IN  /\ fetched' = Append(fetched, mar)
           /\ IF IndexOK(memory, mar)
              THEN /\ registers' = [registers EXCEPT !.mar = mar,
                                       !.mdr = memory[Slot(mar)],
                                       !.cir = memory[Slot(mar)]]
                   /\ stage' = "decode"
                   /\ state' = state
              ELSE /\ registers' = [registers EXCEPT !.mar = mar]
                   /\ stage' = stage
                   /\ state' = "IndexError"
    /\ UNCHANGED <<word, decoded, asm, compiled, memory, inputs, consumed, outputs>>

\* 1. Fetch
Fetch ==
    /\ state = "RUNNING"
    /\ stage = "fetch"
    /\ Len(fetched) < MaxCycles
    /\ LET mar == registers.pc
           pc == registers.pc + 1
       IN  /\ fetched' = Append(fetched, mar)
           /\ IF IndexOK(memory, mar)
              THEN /\ registers' = [registers EXCEPT !.mar = mar, !.pc = pc,
                                       !.mdr = memory[Slot(mar)],
                                       !.cir = memory[Slot(mar)]]
                   /\ stage' = "decode"
                   /\ state' = state
              ELSE /\ registers' = [registers EXCEPT !.mar = mar, !.pc = pc]
                   /\ stage' = stage
                   /\ state' = "IndexError"
    /\ UNCHANGED <<word, decoded, asm, compiled, memory, inputs, consumed, outputs>>

\* 2. Decode, for the words of an engine run here.  int(math.floor(cir / 100))
\* divides in floating point (DecodeLong); for a word of fewer than 31 bits the
\* result is the floor of the exact quotient (DecodeAgrees).
DecodeOpcode(cir) == cir \div Pow10(RAM_SIZE_DECLENGTH)
DecodeOperand(cir) == cir - (DecodeOpcode(cir) * Pow10(RAM_SIZE_DECLENGTH))

Decoding == state = "RUNNING" /\ stage = "decode"

\* Halt taken for every opcode below 1
Halt_NonPositive ==
    /\ Decoding
    /\ DecodeOpcode(registers.cir) <= 0
    /\ state' = "HALTED"
    /\ UNCHANGED <<word, decoded, asm, compiled, memory, registers, stage, inputs, consumed, outputs, fetched>>

\* opcode 0 looked up in EXEC_DICT like any other, where it is no key
Halt_KeyError ==
    /\ Decoding
    /\ DecodeOpcode(registers.cir) = 0
    /\ state' = "KeyError"
    /\ UNCHANGED <<word, decoded, asm, compiled, memory, registers, stage, inputs, consumed, outputs, fetched>>

\* if opcode == 0: return
Halt ==
    /\ Decoding
    /\ DecodeOpcode(registers.cir) = 0
    /\ state' = "HALTED"
    /\ UNCHANGED <<word, decoded, asm, compiled, memory, registers, stage, inputs, consumed, outputs, fetched>>

\* exec_ADD that overwrites the accumulator instead of adding to it
exec_ADD_Overwrite(operand) ==
    /\ registers' = [registers EXCEPT !.mar = operand,
                        !.mdr = memory[Slot(operand)],
                        !.acc = memory[Slot(operand)]]
    /\ state' = state
    /\ UNCHANGED <<memory, inputs, consumed, outputs>>

exec_ADD(operand) ==
    /\ IF IndexOK(memory, operand)
       THEN /\ registers' = [registers EXCEPT !.mar = operand,
                                !.mdr = memory[Slot(operand)],
                                !.acc = registers.acc + memory[Slot(operand)]]
            /\ state' = state
       ELSE /\ registers' = [registers EXCEPT !.mar = operand]
            /\ state' = "IndexError"
    /\ UNCHANGED <<memory, inputs, consumed, outputs>>

exec_SUB(operand) ==
    /\ IF IndexOK(memory, operand)
       THEN /\ registers' = [registers EXCEPT !.mar = operand,
                                !.mdr = memory[Slot(operand)],
                                !.acc = registers.acc - memory[Slot(operand)]]
            /\ state' = state
       ELSE /\ registers' = [registers EXCEPT !.mar = operand]
            /\ state' = "IndexError"
    /\ UNCHANGED <<memory, inputs, consumed, outputs>>

\* exec_STA that writes the MDR before the accumulator is copied into it
exec_STA_StaleMDR(operand) ==
    /\ registers' = [registers EXCEPT !.mar = operand, !.mdr = registers.acc]
    /\ memory' = [memory EXCEPT ![Slot(operand)] = registers.mdr]
    /\ state' = state
    /\ UNCHANGED <<inputs, consumed, outputs>>

\* exec_STA that moves the accumulator into memory, leaving 0 behind
exec_STA_Move(operand) ==
    /\ registers' = [registers EXCEPT !.mar = operand, !.mdr = registers.acc, !.acc = 0]
    /\ memory' = [memory EXCEPT ![Slot(operand)] = registers.acc]
    /\ state' = state
    /\ UNCHANGED <<inputs, consumed, outputs>>

exec_STA(operand) ==
    /\ IF IndexOK(memory, operand)
       THEN /\ registers' = [registers EXCEPT !.mar = operand, !.mdr = registers.acc]
            /\ memory' = [memory EXCEPT ![Slot(operand)] = registers.acc]
            /\ state' = state
       ELSE /\ registers' = [registers EXCEPT !.mar = operand, !.mdr = registers.acc]
            /\ memory' = memory
            /\ state' = "IndexError"
    /\ UNCHANGED <<inputs, consumed, outputs>>

exec_LDA(operand) ==
    /\ IF IndexOK(memory, operand)
       THEN /\ registers' = [registers EXCEPT !.mar = operand,
                                !.mdr = memory[Slot(operand)],
                                !.acc = memory[Slot(operand)]]
            /\ state' = state
       ELSE /\ registers' = [registers EXCEPT !.mar = operand]
            /\ state' = "IndexError"
    /\ UNCHANGED <<memory, inputs, consumed, outputs>>

exec_BRA(operand) ==
    /\ registers' = [registers EXCEPT !.pc = operand]
    /\ UNCHANGED <<memory, state, inputs, consumed, outputs>>

exec_BRZ(operand) ==
    /\ registers' = IF registers.acc = 0 THEN [registers EXCEPT !.pc = operand]
                    ELSE registers
    /\ UNCHANGED <<memory, state, inputs, consumed, outputs>>

\* exec_BRP that also branches on zero
exec_BRP_NonNegative(operand) ==
    /\ registers' = IF registers.acc >= 0 THEN [registers EXCEPT !.pc = operand]
                    ELSE registers
    /\ UNCHANGED <<memory, state, inputs, consumed, outputs>>

exec_BRP(operand) ==
    /\ registers' = IF registers.acc > 0 THEN [registers EXCEPT !.pc = operand]
                    ELSE registers
    /\ UNCHANGED <<memory, state, inputs, consumed, outputs>>

\* exec_INP that reads the next integer without using it up
exec_INP_Reuse(operand) ==
    /\ IF inputs # <<>>
       THEN /\ registers' = [registers EXCEPT !.acc = Head(inputs)]
            /\ inputs' = inputs
            /\ consumed' = Append(consumed, Head(inputs))
            /\ state' = state
       ELSE /\ UNCHANGED <<registers, inputs, consumed>>
            /\ state' = "EOFError"
    /\ UNCHANGED <<memory, outputs>>

\* int(input("< ")): the next supplied integer; EOFError when none is left
exec_INP(operand) ==
    /\ IF inputs # <<>>
       THEN /\ registers' = [registers EXCEPT !.acc = Head(inputs)]
            /\ inputs' = Tail(inputs)
            /\ consumed' = Append(consumed, Head(inputs))
            /\ state' = state
       ELSE /\ UNCHANGED <<registers, inputs, consumed>>
            /\ state' = "EOFError"
    /\ UNCHANGED <<memory, outputs>>

exec_OUT(operand) ==
    /\ outputs' = Append(outputs, registers.acc)
    /\ UNCHANGED <<memory, registers, state, inputs, consumed>>

\* the keys of EXEC_DICT
EXEC_DICT == 1..9

\* EXEC_DICT[opcode](operand, registers, memory), for opcode = code
Dispatch(code) ==
    /\ Decoding
    /\ DecodeOpcode(registers.cir) # 0
    /\ DecodeOpcode(registers.cir) = code
    /\ stage' = "fetch"
    /\ UNCHANGED <<word, decoded, asm, compiled, fetched>>

ExecADD == Dispatch(1) /\ exec_ADD(DecodeOperand(registers.cir))
ExecSUB == Dispatch(2) /\ exec_SUB(DecodeOperand(registers.cir))
ExecSTA == Dispatch(3) /\ exec_STA(DecodeOperand(registers.cir))
ExecLDA == Dispatch(4) /\ exec_LDA(DecodeOperand(registers.cir))
ExecBRA == Dispatch(5) /\ exec_BRA(DecodeOperand(registers.cir))
ExecBRZ == Dispatch(6) /\ exec_BRZ(DecodeOperand(registers.cir))
ExecBRP == Dispatch(7) /\ exec_BRP(DecodeOperand(registers.cir))
ExecINP == Dispatch(8) /\ exec_INP(DecodeOperand(registers.cir))
ExecOUT == Dispatch(9) /\ exec_OUT(DecodeOperand(registers.cir))

\* EXEC_DICT[opcode] for an opcode that is no key: KeyError
UnknownOpcode ==
    /\ Decoding
    /\ DecodeOpcode(registers.cir) # 0
    /\ DecodeOpcode(registers.cir) \notin EXEC_DICT
    /\ state' = "KeyError"
    /\ UNCHANGED <<word, decoded, asm, compiled, memory, registers, stage, inputs, consumed, outputs, fetched>>

\* one pass of execute's while loop: the fetch, or the decode and execute of the
\* fetched word
Cycle ==
    \/ Fetch
    \/ Halt
    \/ ExecADD
    \/ ExecSUB
    \/ ExecSTA
    \/ ExecLDA
    \/ ExecBRA
    \/ ExecBRZ
    \/ ExecBRP
    \/ ExecINP
    \/ ExecOUT
    \/ UnknownOpcode

Next ==
    \/ Compile
    \/ Begin
    \/ Cycle

Spec == Init /\ [][Next]_vars

\* execute is the only thread: its loop keeps running until it returns or raises
FairSpec == Spec /\ WF_vars(Cycle)

\* compile_assembly on its own
NextAsm == Compile

SpecAsm == InitAsm /\ [][NextAsm]_vars

\* the decode step alone, applied to one word
InitDecode ==
    /\ InitEngine({ASSEMBLY_CODE})
    /\ word \in Words
    /\ decoded = NotDecoded

Decode ==
    /\ ~decoded.done
    /\ decoded' = DecodeLong(word)
    /\ UNCHANGED <<asm, compiled, memory, registers, state, stage, inputs, consumed, outputs,
                   fetched, word>>

NextDecode == Decode

SpecDecode == InitDecode /\ [][NextDecode]_vars

-----------------------------------------------------------------------------
(* What the properties are stated in *)

\* the records of a text, one per retained line (err: the line is no record)
Records(text) ==
    LET lines == RetainedLines(text)
    IN  [i \in 1..Len(lines) |-> ParseLine(lines[i])]

AllLinesParse(text) == \A i \in DOMAIN Records(text) : ~Records(text)[i].err

\* record i declares label l
Declares(recs, i, l) == ~recs[i].err /\ l # <<>> /\ recs[i].cmd.label = l

\* record i refers to label l
RefersTo(recs, i, l) ==
    ~recs[i].err /\ recs[i].cmd.operand.isstr /\ recs[i].cmd.operand.tok = l

DuplicateLabel(text) ==
    LET recs == Records(text)
    IN  \E i, j \in DOMAIN recs :
            i # j /\ Declares(recs, i, recs[i].cmd.label)
                  /\ Declares(recs, j, recs[i].cmd.label)

UndeclaredReference(text) ==
    LET recs == Records(text)
    IN  \E i \in DOMAIN recs :
            /\ RefersTo(recs, i, recs[i].cmd.operand.tok)
            /\ \A j \in DOMAIN recs : ~Declares(recs, j, recs[i].cmd.operand.tok)

\* the 0-based index of the record that declares label l
DeclaringIndex(recs, l) == (CHOOSE j \in DOMAIN recs : Declares(recs, j, l)) - 1

\* the operand of record i as a number: its literal, or its label's address
NumericOperand(recs, i) ==
    IF recs[i].cmd.operand.isstr
    THEN DeclaringIndex(recs, recs[i].cmd.operand.tok)
    ELSE recs[i].cmd.operand.val

\* the digits an instruction word carries in front of its operand
OpcodeDigits(recs, i) ==
    IF recs[i].cmd.opcode = DAT THEN 0 ELSE OPCODES[recs[i].cmd.opcode] * 100

\* the word of record i, encoded by hand
HandEncoded(recs, i) == OpcodeDigits(recs, i) + NumericOperand(recs, i)

\* the text with every label reference replaced by the address it resolves to
Rewritten(text) ==
    LET lines == RetainedLines(text)
        recs == Records(text)
        NewLine(i) ==
            LET parts == split(lines[i])
            IN  IF recs[i].cmd.operand.isstr
                THEN JoinFields([parts EXCEPT ![Len(parts)] =
                                    Str(DeclaringIndex(recs, recs[i].cmd.operand.tok))])
                ELSE JoinFields(parts)
    IN  JoinLines([i \in 1..Len(lines) |-> NewLine(i)])

\* the integers supplied to this run, read or not
Supplied == consumed \o inputs

\* execute was entered with pc = 0
RunFromZero ==
    /\ state # "IDLE"
    /\ IF fetched = <<>> THEN registers.pc = 0 ELSE fetched[1] = 0

-----------------------------------------------------------------------------
(* Properties of compile_assembly, checked under SpecAsm *)

\* C4: a source in which two different records declare the same non-empty label
\* fails with CompileError and yields no memory image, wherever the two lines are.
C4_DuplicateLabelFails ==
    (compiled # "pending" /\ DuplicateLabel(asm))
        => (compiled = "CompileError" /\ memory = NoMemory)

\* two declarations of one label, not on neighbouring lines, in a source that has
\* no other fault, and compile_assembly has raised
C4_Witness ==
    /\ compiled = "CompileError"
    /\ AllLinesParse(asm)
    /\ ~UndeclaredReference(asm)
    /\ LET recs == Records(asm)
       IN  \E i, j \in DOMAIN recs :
              j > i + 1 /\ Declares(recs, i, recs[i].cmd.label)
                        /\ Declares(recs, j, recs[i].cmd.label)

\* C5: a source in which some record's operand is a non-numeric token that no
\* record declares as a label fails with CompileError and yields no memory image.
C5_UndeclaredLabelFails ==
    (compiled # "pending" /\ UndeclaredReference(asm))
        => (compiled = "CompileError" /\ memory = NoMemory)

\* an undeclared reference in a source that has no other fault
C5_Witness ==
    /\ compiled = "CompileError"
    /\ AllLinesParse(asm)
    /\ ~DuplicateLabel(asm)
    /\ UndeclaredReference(asm)

\* C6: in an assembled program every label reference is replaced by the 0-based
\* index, over the retained lines, of the one record that declares the label, and
\* the word at that address is the declaring record's, for references before and
\* after the declaration alike.
C6_LabelAddress ==
    compiled = "ok" =>
        LET recs == Records(asm)
        IN  \A i \in DOMAIN recs :
                recs[i].cmd.operand.isstr =>
                    LET D == {j \in DOMAIN recs : Declares(recs, j, recs[i].cmd.operand.tok)}
                    IN  /\ Cardinality(D) = 1
                        /\ \A j \in D :
                              /\ memory[i - 1] - OpcodeDigits(recs, i) = j - 1
                              /\ memory[j - 1] = HandEncoded(recs, j)

\* an assembled program with a forward and a backward reference, whose addresses
\* differ from the line numbers of the text because a line was dropped
C6_Witness ==
    /\ compiled = "ok"
    /\ Len(RetainedLines(asm)) < Len(split_on(asm, "\n"))
    /\ LET recs == Records(asm)
       IN  /\ \E i, j \in DOMAIN recs :
                i < j /\ RefersTo(recs, i, recs[j].cmd.label) /\ recs[j].cmd.label # <<>>
           /\ \E i, j \in DOMAIN recs :
                i > j /\ RefersTo(recs, i, recs[j].cmd.label) /\ recs[j].cmd.label # <<>>

\* C7: for a source that assembles, the source rewritten with every label
\* reference replaced by its decimal address has no label reference left and
\* assembles to the same memory image, word for word.
C7_ResolutionIdempotent ==
    compiled = "ok" =>
        LET numeric == Rewritten(asm)
            again == compile_assembly(numeric)
        IN  /\ \A i \in DOMAIN Records(numeric) :
                  ~Records(numeric)[i].err /\ ~Records(numeric)[i].cmd.operand.isstr
            /\ again.outcome = "ok"
            /\ again.memory = memory

\* an assembled program with a label reference whose address has two digits
C7_Witness ==
    /\ compiled = "ok"
    /\ Rewritten(asm) # asm
    /\ LET recs == Records(asm)
       IN  \E i \in DOMAIN recs :
              recs[i].cmd.operand.isstr /\ NumericOperand(recs, i) >= 10

\* C8: the image of an assembled program of k records has RAM_SIZE words; word i
\* (i < k) is opcode * 100 + operand for an instruction and the bare operand (0
\* when none was given) for DAT; every word from k on is 0.
C8_ImageWords ==
    compiled = "ok" =>
        LET recs == Records(asm)
            k == Len(recs)
        IN  /\ k <= RAM_SIZE
            /\ DOMAIN memory = 0..(RAM_SIZE - 1)
            /\ \A a \in 0..(RAM_SIZE - 1) :
                  memory[a] = IF a < k THEN HandEncoded(recs, a + 1) ELSE 0

\* an image with an instruction that has an operand, a DAT with one, a DAT without
C8_Witness ==
    /\ compiled = "ok"
    /\ LET recs == Records(asm)
       IN  /\ Len(recs) < RAM_SIZE
           /\ \E i \in DOMAIN recs :
                recs[i].cmd.opcode # DAT /\ NumericOperand(recs, i) > 0
                    /\ memory[i - 1] > NumericOperand(recs, i)
           /\ \E i \in DOMAIN recs :
                recs[i].cmd.opcode = DAT /\ memory[i - 1] # 0
           /\ \E i \in DOMAIN recs :
                recs[i].cmd.opcode = DAT /\ Len(split(RetainedLines(asm)[i])) < 3
                    /\ recs[i].cmd.label # <<>> /\ memory[i - 1] = 0

\* C9: compile_assembly either returns an image of RAM_SIZE words or raises
\* CompileError; it ends in no other way.
C9_ImageOrCompileError ==
    /\ compiled \in {"pending", "ok", "CompileError"}
    /\ compiled = "ok" => DOMAIN memory = 0..(RAM_SIZE - 1)

-----------------------------------------------------------------------------
(* Properties of execute, checked under Spec and FairSpec *)

\* C1: the add program, run from pc 0 with the inputs 3 and 4, fetches the
\* addresses 0, 1, ..., 7 in that order and nothing else, keeps running until it
\* halts after the eighth fetch, and has then put out exactly 7 and left
\* memory[8] = 3 and memory[9] = 4.
C1_AddProgram ==
    (asm = AddProgram /\ RunFromZero /\ Supplied = <<3, 4>>) =>
        /\ state \in {"RUNNING", "HALTED"}
        /\ Len(fetched) <= 8
        /\ fetched = [i \in 1..Len(fetched) |-> i - 1]
        /\ outputs \in {<<>>, <<7>>}
        /\ state = "RUNNING" => ENABLED Cycle
        /\ state = "HALTED" =>
              /\ Len(fetched) = 8
              /\ outputs = <<7>>
              /\ memory[8] = 3
              /\ memory[9] = 4

\* the add program has halted on the inputs 3 and 4
C1_Witness ==
    /\ asm = AddProgram
    /\ RunFromZero
    /\ consumed = <<3, 4>>
    /\ state = "HALTED"
    /\ outputs = <<7>>

\* a run of ASSEMBLY_CODE from pc 0 on two inputs, the first at least 1
LoopRun ==
    /\ asm = ASSEMBLY_CODE
    /\ RunFromZero
    /\ Len(Supplied) = 2
    /\ Supplied[1] >= 1

\* C2: ASSEMBLY_CODE, run from pc 0 on inputs a >= 1 and b, always halts, and
\* its output is the single value a * b (nothing else is ever put out).
C2_LoopProduct ==
    /\ [](LoopRun =>
            /\ state \in {"RUNNING", "HALTED"}
            /\ outputs \in {<<>>, <<Supplied[1] * Supplied[2]>>}
            /\ state = "HALTED" => outputs = <<Supplied[1] * Supplied[2]>>)
    /\ (LoopRun ~> (state = "HALTED"))

\* ASSEMBLY_CODE has halted on the inputs 4 and 5 with the output 20
C2_Witness ==
    /\ asm = ASSEMBLY_CODE
    /\ RunFromZero
    /\ consumed = <<4, 5>>
    /\ state = "HALTED"
    /\ outputs = <<20>>

\* C3: the step that executes BRP leaves pc = operand when the accumulator is
\* greater than 0 and pc = fetched address + 1 otherwise (also for 0); the step
\* that executes BRZ leaves pc = operand when the accumulator is 0 and
\* pc = fetched address + 1 otherwise.
C3_BranchConditions ==
    [][ /\ (Decoding /\ DecodeOpcode(registers.cir) = 7) =>
              registers'.pc = IF registers.acc > 0
                              THEN DecodeOperand(registers.cir)
                              ELSE registers.mar + 1
        /\ (Decoding /\ DecodeOpcode(registers.cir) = 6) =>
              registers'.pc = IF registers.acc = 0
                              THEN DecodeOperand(registers.cir)
                              ELSE registers.mar + 1 ]_vars

\* BRP has just been executed with the accumulator 0 and has not branched
C3_Witness ==
    /\ state = "RUNNING"
    /\ stage = "fetch"
    /\ fetched # <<>>
    /\ DecodeOpcode(registers.cir) = 7
    /\ registers.acc = 0
    /\ registers.pc = registers.mar + 1
    /\ DecodeOperand(registers.cir) # registers.pc

\* C10: execute returns exactly in the step that follows the fetch of a word in
\* 0..99 (opcode 0, whatever its operand), and that step changes neither a
\* memory word nor the accumulator; after any other word it does not return.
C10_HaltOnlyOnOpcodeZero ==
    [][ /\ (state # "HALTED" /\ state' = "HALTED") =>
              /\ Decoding
              /\ registers.cir = memory[Slot(registers.mar)]
              /\ registers.cir \in 0..99
              /\ memory' = memory
              /\ registers'.acc = registers.acc
        /\ (Decoding /\ registers.cir \in 0..99) => state' = "HALTED"
        /\ (Decoding /\ registers.cir \notin 0..99) => state' # "HALTED" ]_vars

\* execute has returned on a word with opcode 0 and an operand other than 0
C10_Witness ==
    /\ state = "HALTED"
    /\ registers.cir \in 1..99
    /\ registers.cir = memory[Slot(registers.mar)]

\* C11: execute reaches memory only through addresses in 0..RAM_SIZE-1: a fetch
\* at an address outside that range is the last one and has ended the run with a
\* fatal error, and so has a dereference of an operand outside it.
C11_NoAccessOutOfRange ==
    /\ \A n \in 1..Len(fetched) :
          fetched[n] \notin 0..(RAM_SIZE - 1) =>
              (n = Len(fetched) /\ state = "IndexError")
    /\ (state # "IDLE" /\ registers.mar \notin 0..(RAM_SIZE - 1)) => state = "IndexError"


\* the classification of a line by the number of its fields
KnownMnemonic(field) == field \in DOMAIN OPCODES

Classified(parts) ==
    LET n == Len(parts)
        first == parts[1]
        second == parts[2]
        third == parts[3]
    IN  IF n = 1 /\ KnownMnemonic(first)
        THEN Parsed(LabelledCommandTuple(<<>>, first, IntOperand(0)))
        ELSE IF n = 2 /\ KnownMnemonic(first)
        THEN Parsed(LabelledCommandTuple(<<>>, first, ConvertOperand(second)))
        ELSE IF n = 2 /\ KnownMnemonic(second)
        THEN Parsed(LabelledCommandTuple(first, second, IntOperand(0)))
        ELSE IF n = 3 /\ KnownMnemonic(second)
        THEN Parsed(LabelledCommandTuple(first, second, ConvertOperand(third)))
        ELSE Raised

ClassifiedRecords(text) ==
    LET lines == RetainedLines(text)
    IN  [i \in 1..Len(lines) |-> Classified(split(lines[i]))]

\* C12: every retained line is classified by its number of fields: one field is
\* an opcode with operand 0; two fields are (opcode, operand) when the first is a
\* mnemonic, else (label, opcode) with operand 0 when the second is; three fields
\* are (label, opcode, operand) when the middle one is a mnemonic; anything else
\* raises CompileError.  The outcome and the image follow that classification.
C12_FieldCountClassification ==
    LET lines == RetainedLines(asm)
        recs == ClassifiedRecords(asm)
    IN  /\ \A i \in DOMAIN lines : ParseLine(lines[i]) = recs[i]
        /\ (compiled # "pending" /\ \E i \in DOMAIN recs : recs[i].err)
              => compiled = "CompileError"
        /\ compiled = "ok" =>
              \A i \in DOMAIN recs :
                  /\ ~recs[i].err
                  /\ memory[i - 1] = OpcodeDigits(recs, i) + NumericOperand(recs, i)

\* assembled: a two-field line of two mnemonics, taken as (opcode, operand)
C12_Witness ==
    /\ compiled = "ok"
    /\ LET lines == RetainedLines(asm)
       IN  \E i \in DOMAIN lines :
              LET parts == split(lines[i])
              IN  /\ Len(parts) = 2
                  /\ KnownMnemonic(parts[1]) /\ KnownMnemonic(parts[2])
                  /\ memory[i - 1] \div 100 = OPCODES[parts[1]]
                  /\ OPCODES[parts[1]] # 0

\* rejected: one line of more than three fields, each a mnemonic or a number
C12_WitnessTooMany ==
    /\ compiled = "CompileError"
    /\ Len(RetainedLines(asm)) = 1
    /\ Len(split(RetainedLines(asm)[1])) > 3


\* the address of the last fetch
LastFetched == fetched[Len(fetched)]

\* the instruction being decoded sets the program counter
BranchTaken ==
    \/ DecodeOpcode(registers.cir) = OPCODES[BRA]
    \/ DecodeOpcode(registers.cir) = OPCODES[BRZ] /\ registers.acc = 0
    \/ DecodeOpcode(registers.cir) = OPCODES[BRP] /\ registers.acc > 0

\* C13: a fetch reads at the program counter and increments it by one before
\* decode and execute; after a cycle that fetched address p and goes on, the next
\* fetch address is the operand for BRA and a taken BRZ or BRP, and p + 1 for
\* every other instruction.
C13_NextFetchAddress ==
    [][ /\ fetched' # fetched =>
              /\ state = "RUNNING" /\ stage = "fetch"
              /\ fetched' = Append(fetched, registers.pc)
              /\ registers'.pc = registers.pc + 1
              /\ registers'.acc = registers.acc
        /\ Decoding => registers.pc = LastFetched + 1
        /\ (Decoding /\ state' = "RUNNING" /\ stage' = "fetch") =>
              registers'.pc = IF BranchTaken THEN DecodeOperand(registers.cir)
                              ELSE LastFetched + 1
      ]_vars

\* a BRA at p was followed by a fetch at its operand, not at p + 1, and a BRZ at
\* q that was not taken by a fetch at q + 1
C13_Witness ==
    /\ RunFromZero
    /\ memory = compile_assembly(asm).memory
    /\ \E n \in 1..(Len(fetched) - 1) :
          /\ DecodeOpcode(memory[fetched[n]]) = OPCODES[BRA]
          /\ fetched[n + 1] = DecodeOperand(memory[fetched[n]])
          /\ fetched[n + 1] # fetched[n] + 1
    /\ \E n \in 1..(Len(fetched) - 1) :
          /\ DecodeOpcode(memory[fetched[n]]) = OPCODES[BRZ]
          /\ fetched[n + 1] = fetched[n] + 1
          /\ fetched[n + 1] # DecodeOperand(memory[fetched[n]])


\* the instruction being decoded is the one with this mnemonic
Executing(mnemonic) == Decoding /\ DecodeOpcode(registers.cir) = OPCODES[mnemonic]

\* C14: the output sequence grows only by an OUT, by exactly the accumulator, and
\* OUT leaves accumulator, program counter and memory as they were; the n-th INP
\* sets the accumulator to the n-th supplied integer, and the supplied integers
\* are used in order, none skipped and none reused.
C14_OutputsAndInputsInOrder ==
    [][ /\ outputs' # outputs => Executing(OUT)
        /\ Executing(OUT) =>
              /\ outputs' = Append(outputs, registers.acc)
              /\ registers' = registers
              /\ memory' = memory
        /\ (consumed' # consumed \/ inputs' # inputs) => (Executing(INP) \/ state = "IDLE")
        /\ (Executing(INP) /\ Len(consumed) < Len(Supplied)) =>
              /\ registers'.acc = Supplied[Len(consumed) + 1]
              /\ consumed' = Append(consumed, Supplied[Len(consumed) + 1])
              /\ state' = "RUNNING"
        /\ state # "IDLE" => Supplied' = Supplied
      ]_vars

\* two OUTs have emitted two different accumulator values after an INP
C14_Witness ==
    /\ Len(outputs) >= 2
    /\ outputs[1] # outputs[2]
    /\ consumed # <<>>
    /\ outputs[1] = consumed[1]

\* two INPs have read two different integers, in the order supplied
C14_WitnessInputs ==
    /\ Len(consumed) = 2
    /\ consumed[1] # consumed[2]
    /\ inputs = <<>>
    /\ registers.acc = consumed[2]
    /\ stage = "fetch"


\* the number of records of the program, which fill addresses 0 .. that - 1
Populated == Len(Records(asm))

\* C15: when control has run past the last populated address and the word
\* fetched there is 0, the run halts normally at once: that step executes no
\* instruction, raises no error and changes nothing else, and no step follows.
C15_FallOffHalts ==
    /\ [][ (Decoding /\ LastFetched \in Populated..(RAM_SIZE - 1) /\ registers.cir = 0) =>
              /\ state' = "HALTED"
              /\ UNCHANGED <<memory, registers, inputs, consumed, outputs, fetched>>
         ]_vars
    /\ [](state = "HALTED" => ~ENABLED Cycle)

\* a program of fewer than RAM_SIZE records, the last of them no HLT, has run
\* from 0 through every record to the first unpopulated word and halted there
C15_Witness ==
    /\ state = "HALTED"
    /\ RunFromZero
    /\ Populated < RAM_SIZE
    /\ Records(asm)[Populated].cmd.opcode # HLT
    /\ fetched = [n \in 1..(Populated + 1) |-> n - 1]
    /\ registers.cir = 0
    /\ memory[Populated] = 0
    /\ outputs # <<>>


\* the multiplier the engine decodes with
Multiplier == Pow10(RAM_SIZE_DECLENGTH)

\* record i is an instruction (not DAT) whose operand, resolved, is v
InstructionWith(recs, i, v) ==
    ~recs[i].err /\ recs[i].cmd.opcode # DAT /\ NumericOperand(recs, i) = v

\* C16: for every instruction (any mnemonic but DAT) with code c and operand v,
\* 0 <= v < multiplier, the word the assembler stored decodes, as the engine
\* decodes it, to opcode c and operand v.
C16_DecodeInvertsEncode ==
    compiled = "ok" =>
        LET recs == Records(asm)
        IN  \A i \in DOMAIN recs : \A v \in 0..(Multiplier - 1) :
                InstructionWith(recs, i, v) =>
                    /\ DecodeOpcode(memory[i - 1]) = OPCODES[recs[i].cmd.opcode]
                    /\ DecodeOperand(memory[i - 1]) = v

\* the largest code with the largest operand in range: OUT 99 stored as 999
C16_Witness ==
    /\ compiled = "ok"
    /\ LET recs == Records(asm)
       IN  /\ Len(recs) = 1
           /\ InstructionWith(recs, 1, Multiplier - 1)
           /\ recs[1].cmd.opcode = OUT
           /\ memory[0] = 999
           /\ DecodeOpcode(memory[0]) = 9

\* the assembler's part of C17, for operands of at most three digits: a source
\* whose lines all parse, with no duplicate or undeclared label and at most
\* RAM_SIZE records, is assembled without error even when an instruction
\* has a numeric operand v outside 0 .. multiplier - 1; the stored word then
\* decodes to the opcode code + floor(v / multiplier), not to the instruction's.
C17_OperandOverflowCorruptsOpcode ==
    LET recs == Records(asm)
    IN  /\ (/\ compiled # "pending"
            /\ AllLinesParse(asm)
            /\ ~DuplicateLabel(asm)
            /\ ~UndeclaredReference(asm)
            /\ Len(recs) <= RAM_SIZE) => compiled = "ok"
        /\ compiled = "ok" =>
              \A i \in DOMAIN recs :
                  (/\ recs[i].cmd.opcode # DAT
                   /\ NumericOperand(recs, i) \notin 0..(Multiplier - 1)) =>
                      LET code == OPCODES[recs[i].cmd.opcode]
                          v == NumericOperand(recs, i)
                      IN  /\ DecodeOpcode(memory[i - 1]) = code + (v \div Multiplier)
                          /\ DecodeOpcode(memory[i - 1]) # code

\* assembled: an operand above the multiplier and an operand below 0, each with
\* a word that decodes to another opcode
C17_Witness ==
    /\ compiled = "ok"
    /\ LET recs == Records(asm)
       IN  \E i \in DOMAIN recs :
              /\ recs[i].cmd.opcode = SUB
              /\ ~recs[i].cmd.operand.isstr
              /\ recs[i].cmd.operand.val >= Multiplier
              /\ DecodeOpcode(memory[i - 1]) = OPCODES[STA]

C17_WitnessNegative ==
    /\ compiled = "ok"
    /\ LET recs == Records(asm)
       IN  \E i \in DOMAIN recs :
              /\ recs[i].cmd.opcode = HLT
              /\ ~recs[i].cmd.operand.isstr
              /\ recs[i].cmd.operand.val < 0
              /\ DecodeOpcode(memory[i - 1]) = 0 - 1


\* C18: in every run of an assembled program the fetched word decodes to an
\* opcode in 0..9, so the dispatch never meets an opcode that is no key of
\* EXEC_DICT.
C18_NoUnknownOpcode ==
    /\ state # "KeyError"
    /\ Decoding => DecodeOpcode(registers.cir) \in {0} \cup EXEC_DICT


\* C19: STA with operand a sets memory[a] to the accumulator and changes no
\* other word and not the accumulator; no other step of a run changes any
\* memory word, so a word differs from the assembled image only where a STA
\* has stored.
C19_OnlySTAWritesMemory ==
    [][ /\ Executing(STA) =>
              /\ memory' = [memory EXCEPT ![DecodeOperand(registers.cir)] = registers.acc]
              /\ registers'.acc = registers.acc
        /\ (state # "IDLE" /\ ~Executing(STA)) => memory' = memory
        /\ (compiled = "ok" /\ state = "IDLE") => memory = compile_assembly(asm).memory
      ]_vars

\* a STA has just stored a nonzero accumulator over a word of the image that
\* held something else; every other word is as assembled
C19_Witness ==
    /\ state = "RUNNING"
    /\ stage = "fetch"
    /\ DecodeOpcode(registers.cir) = OPCODES[STA]
    /\ registers.acc # 0
    /\ LET image == compile_assembly(asm).memory
           a == DecodeOperand(registers.cir)
       IN  /\ memory[a] = registers.acc
           /\ image[a] # registers.acc
           /\ \A b \in DOMAIN memory : b # a => memory[b] = image[b]


-----------------------------------------------------------------------------
(* Properties of the decode step on words of any size, checked under SpecDecode *)

\* x is in 0 .. multiplier - 1
BelowMultiplier(x) == ~x.neg /\ LessDigits(x.digits, NatDigits(Multiplier))

\* on a word of fewer than 31 bits the decode step gives what DecodeOpcode and
\* DecodeOperand give
DecodeAgrees ==
    (decoded.done /\ BitLength(word.digits) < 31) =>
        /\ decoded.opcode = LongOf(DecodeOpcode(IntOf(word)))
        /\ decoded.operand = LongOf(DecodeOperand(IntOf(word)))

\* C20: for every integer word handed to the decode step, negative words and
\* words of 10 * multiplier or more included, the decoded operand is in
\* 0 .. multiplier - 1.
C20_OperandBelowMultiplier ==
    decoded.done => BelowMultiplier(decoded.operand)

\* the second half of C20, in a run of the engine: an ADD, SUB, STA or LDA
\* dereferences an address in 0 .. RAM_SIZE - 1 only, and a branch sets the
\* program counter to one
EngineOperandInRange ==
    [][ /\ Decoding => DecodeOperand(registers.cir) \in 0..(RAM_SIZE - 1)
        /\ (Decoding /\ DecodeOpcode(registers.cir) \in 1..4) =>
              (registers'.mar \in 0..(RAM_SIZE - 1) /\ state' = "RUNNING")
        /\ (Decoding /\ BranchTaken) => registers'.pc \in 0..(RAM_SIZE - 1)
      ]_vars

\* the word that encodes the instruction with this code and operand v, read
\* back: v
OperandOf(code) == LongSub(word, LongOf(code * Multiplier))

\* C17: the word stored for an instruction with code c and a numeric operand v
\* outside 0 .. multiplier - 1 (which compile_assembly accepts) decodes to the
\* opcode c + floor(v / multiplier).
C17_StoredWordOpcode ==
    decoded.done =>
        \A code \in {0} \cup EXEC_DICT :
            ~BelowMultiplier(OperandOf(code)) =>
                decoded.opcode = LongAdd(LongOf(code), LongFloorDiv(OperandOf(code), Multiplier))

=============================================================================
